---- MODULE Spec2Model ----
(***************************************************************************)
(* Model of update_daily_news.py: one run of the script is                 *)
(*   main -> fetch_insurance_news -> generate_news_entry ->                *)
(*   update_index_html                                                     *)
(* Texts (the document index.html, the Gemini response, the JSON that      *)
(* json.dumps produces, the replacement template handed to re.sub) are     *)
(* sequences of tokens.  A token is a run of bytes that the code treats as *)
(* a unit: the anchor literal, a date key literal, one JSON string         *)
(* literal, a bracket, a comma, a run of whitespace, other bytes.          *)
(***************************************************************************)
EXTENDS Integers, Sequences, FiniteSets, TLC

(* ---------------------------- bounds ---------------------------------- *)
MaxEntryLen == 2
MaxResults == 3
MaxRuns == 2

(* ------------------------ program constants --------------------------- *)
MinResults == 3
models_to_try == <<"gemini-2.0-flash", "gemini-1.5-pro", "gemini-1.5-flash">>

Dates == {"2026-11-01", "2026-11-02"}
NoDate == ""
None == <<"None">>

(* ------------------------------ tokens -------------------------------- *)
ANCHOR == "const NEWS_DATABASE = {"
KeyTok(d) == "\"" \o d \o "\":"
Whitespace == {" ", "nl", "nl12", "nl16"}

\* The values an element of the generated array can take, by the way its
\* JSON text is treated downstream: a string without special characters, a
\* string holding a double quote, a line feed, a control character U+0001,
\* and a string holding the anchor literal.
Kinds == {"plain", "quote", "newline", "control", "anchor"}

\* json.dumps of one element (ensure_ascii=False): the escapes \" \n \u0001
\* are part of the literal's bytes.
EncodeItem(k) ==
  CASE k = "plain"   -> <<"s_plain">>
    [] k = "quote"   -> <<"s_esc_quote">>
    [] k = "newline" -> <<"s_esc_n">>
    [] k = "control" -> <<"s_esc_u">>
    [] k = "anchor"  -> <<"Q", ANCHOR, "Q">>

RECURSIVE DumpItems(_, _)
DumpItems(e, i) ==
  IF i > Len(e) THEN <<"nl">>
  ELSE <<"nl16">> \o EncodeItem(e[i])
       \o (IF i < Len(e) THEN <<",">> ELSE <<>>) \o DumpItems(e, i + 1)

\* json.dumps(new_entry, ensure_ascii=False, indent=16)
JsonDumps(e) ==
  IF e = <<>> THEN <<"[", "]">> ELSE <<"[">> \o DumpItems(e, 1) \o <<"]">>

ParseError == [ok |-> FALSE, val |-> <<>>]

RECURSIVE ParseElems(_)
ParseElems(s) ==
  LET item == IF s = <<>> THEN [n |-> 0, k |-> "plain"]
              ELSE CASE s[1] = "s_plain"     -> [n |-> 1, k |-> "plain"]
                     [] s[1] = "s_esc_quote" -> [n |-> 1, k |-> "quote"]
                     [] s[1] = "s_esc_n"     -> [n |-> 1, k |-> "newline"]
                     [] s[1] = "s_esc_u"     -> [n |-> 1, k |-> "control"]
                     [] s[1] = "Q" -> IF Len(s) >= 3 /\ s[2] = ANCHOR /\ s[3] = "Q"
                                      THEN [n |-> 3, k |-> "anchor"]
                                      ELSE [n |-> 0, k |-> "plain"]
                     [] OTHER -> [n |-> 0, k |-> "plain"]
      rest == SubSeq(s, item.n + 1, Len(s))
  IN IF item.n = 0 THEN ParseError
     ELSE IF rest = <<>> THEN [ok |-> TRUE, val |-> <<item.k>>]
     ELSE IF rest[1] # "," THEN ParseError
     ELSE LET r == ParseElems(Tail(rest))
          IN IF r.ok THEN [ok |-> TRUE, val |-> <<item.k>> \o r.val]
             ELSE ParseError

\* json.loads: whitespace between tokens is skipped; the text must be one
\* array "[" item ("," item)* "]"; anything else raises JSONDecodeError.
JsonLoads(t) ==
  LET s == SelectSeq(t, LAMBDA x : x \notin Whitespace)
  IN IF Len(s) < 2 \/ s[1] # "[" \/ s[Len(s)] # "]" THEN ParseError
     ELSE IF Len(s) = 2 THEN [ok |-> TRUE, val |-> <<>>]
     ELSE ParseElems(SubSeq(s, 2, Len(s) - 1))

Positions(t, tok) == {i \in 1..Len(t) : t[i] = tok}
Contains(t, tok) == Positions(t, tok) # {}
Min(S) == CHOOSE x \in S : \A y \in S : x <= y
Max(S) == CHOOSE x \in S : \A y \in S : x >= y

\* re.search(r'\[.*\]', text, re.DOTALL): leftmost "[", then greedily up to
\* the last "]" after it; None when there is no such pair.
ReSearch(text) ==
  LET opens == Positions(text, "[")
      closes == IF opens = {} THEN {}
                ELSE {j \in Positions(text, "]") : j > Min(opens)}
  IN IF closes = {} THEN None
     ELSE SubSeq(text, Min(opens), Max(closes))


\* The replacement argument of re.sub, r'\1\n            ' + insertion_text.
\* "BS1" is the two bytes \1, "BSn12" the two bytes \n and 12 spaces (the
\* prefix is a raw string); the line feed that ends insertion_text is a
\* real one ("nl12"), as the f-string is not raw.
Template(d, e) ==
  <<"BS1", "BSn12", KeyTok(d), " ">> \o JsonDumps(e) \o <<",", "nl12">>

\* re's template compiler rejects a backslash followed by an ASCII letter it
\* does not know (\u of a \u0001 escape): re.error.
TemplateRaises(tmpl) == Contains(tmpl, "s_esc_u")

\* Expansion of the template for one match: \1 is the matched text, \n a
\* line feed, \" is left alone, and the \n inside a JSON string literal is
\* turned into a line feed as well.
RECURSIVE Expand(_, _)
Expand(tmpl, group) ==
  IF tmpl = <<>> THEN <<>>
  ELSE (CASE tmpl[1] = "BS1"     -> <<group>>
          [] tmpl[1] = "BSn12"   -> <<"nl12">>
          [] tmpl[1] = "s_esc_n" -> <<"s_raw_n">>
          [] OTHER               -> <<tmpl[1]>>) \o Expand(Tail(tmpl), group)

\* re.sub(r'(const NEWS_DATABASE = \{)', tmpl, content): count is left at
\* 0, so every match of the pattern is replaced by the expanded template.
RECURSIVE ReSub(_, _)
ReSub(tmpl, content) ==
  IF content = <<>> THEN <<>>
  ELSE (IF content[1] = ANCHOR THEN Expand(tmpl, content[1])
        ELSE <<content[1]>>) \o ReSub(tmpl, Tail(content))

\* The guard left out: the date is never found.
AlreadyPresentNever(content, d) == FALSE

\* f'"{date_str}":' in content
AlreadyPresent(content, d) == Contains(content, KeyTok(d))

\* The threshold off by one: len(results) < 2.
FewResultsTwo(results) == Len(results) < MinResults - 1

\* len(results) < 3
FewResults(results) == Len(results) < MinResults

(* ------------------------------ inputs -------------------------------- *)
Entries == UNION {[1..n -> Kinds] : n \in 0..MaxEntryLen}

\* What requests.get does: it raises, or it returns a response: status 200
\* with a body that lists n results, or an error status (429) without any.
SearchOutcomes ==
  {[raised |-> TRUE, status |-> 0, n |-> 0],
   [raised |-> FALSE, status |-> 429, n |-> 0]}
  \cup [raised : {FALSE}, status : {200}, n : 0..MaxResults]

Hits(query, n) == [i \in 1..n |-> query]

\* A JSON array as the model writes it in its answer.
RECURSIVE TextItems(_, _)
TextItems(e, i) ==
  IF i > Len(e) THEN <<>>
  ELSE EncodeItem(e[i]) \o (IF i < Len(e) THEN <<",">> ELSE <<>>)
       \o TextItems(e, i + 1)

ArrayText(e) == <<"[">> \o TextItems(e, 1) \o <<"]">>

\* response.text: the array alone, the array in a code fence or in prose
\* ("p"), the array with a bracketed remark before or after it, and texts
\* without a usable array.
Bodies ==
  {ArrayText(e) : e \in Entries}
  \cup {<<"p">>, <<"[", "s_plain">>, <<"[", "s_plain", "s_plain", "]">>}

ResponseTexts ==
  UNION {{b, <<"p">> \o b \o <<"p">>, b \o <<"p", "[", "p", "]">>,
          <<"[", "p", "]", "p">> \o b} : b \in Bodies}

GenOutcomes(Texts) ==
  [kind : {"ok"}, text : Texts]
  \cup [kind : {"ResourceExhausted", "Exception"}, text : {None}]

\* The documents the script may find in index.html.
Stored(d, e) == <<KeyTok(d), " ">> \o JsonDumps(e) \o <<",", "nl12">>

InitDocs ==
  { <<"x">>,
    <<"x", ANCHOR, "nl12", "}", "x">>,
    <<"x", ANCHOR, "nl12">> \o Stored("2026-11-01", <<"plain">>) \o <<"}", "x">>,
    <<"x", ANCHOR, "nl12", "}", "x", ANCHOR, "x">>,
    <<"x", KeyTok("2026-11-02"), "x">> }

(* ------------------------------ state --------------------------------- *)
VARIABLES
  pc,            \* position of the process in the script
  outcome,       \* the message the run ended with
  exitCode,      \* exit status of the process (meaningful once it ended)
  GEMINI_API_KEY, BRAVE_API_KEY,   \* TRUE when the variable is set
  doc,           \* text of index.html
  docAtStart,    \* text of index.html when the process started
  docReads, docWrites,             \* open(REPO_PATH) for reading / writing
  content,       \* update_index_html: the text read
  date_str,      \* update_index_html: get_current_date()
  searchCalls,   \* the queries sent with requests.get, in order
  primary, fallback,               \* the responses to the two queries
  results,       \* fetch_insurance_news: results
  news,          \* __main__: news
  genCalls,      \* the model names generate_content was called for
  genFails,      \* how many of these calls raised
  backoffs,      \* how many times time.sleep(10) ran
  response,      \* generate_news_entry: response
  entry,         \* __main__: entry
  runs           \* number of the run of the script

vars == <<pc, outcome, exitCode, GEMINI_API_KEY, BRAVE_API_KEY, doc,
          docAtStart, docReads, docWrites, content, date_str, searchCalls,
          primary, fallback, results, news, genCalls, genFails, backoffs,
          response, entry, runs>>

envVars == <<GEMINI_API_KEY, BRAVE_API_KEY, runs, docAtStart>>
docVars == <<doc, docReads, docWrites, content, date_str>>
fetchVars == <<searchCalls, primary, fallback, results, news>>
genVars == <<genCalls, genFails, backoffs, response, entry>>

Terminal == {"ABORT", "FAIL", "SKIP", "DONE", "CRASH"}
NoResponse == [raised |-> FALSE, status |-> 0, n |-> 0]

Fresh ==
  /\ pc = "INIT" /\ outcome = "" /\ exitCode = 0
  /\ docReads = 0 /\ docWrites = 0 /\ content = None /\ date_str = NoDate
  /\ searchCalls = <<>> /\ primary = NoResponse /\ fallback = NoResponse
  /\ results = <<>> /\ news = <<>>
  /\ genCalls = <<>> /\ genFails = 0 /\ backoffs = 0
  /\ response = None /\ entry = None

Init ==
  /\ Fresh
  /\ GEMINI_API_KEY \in BOOLEAN /\ BRAVE_API_KEY \in BOOLEAN
  /\ doc \in InitDocs /\ docAtStart = doc
  /\ runs = 1

\* sys.exit(0) written for sys.exit(1).
Exit1AsZero(msg) == pc' = "FAIL" /\ outcome' = msg /\ exitCode' = 0

\* sys.exit(1)
Exit1(msg) == pc' = "FAIL" /\ outcome' = msg /\ exitCode' = 1


\* return results  /  news = fetch_insurance_news(); if news: ... else: ...
FetchReturns(res) ==
  /\ results' = res
  /\ news' = res
  /\ IF res # <<>>
     THEN pc' = "GENERATING" /\ UNCHANGED <<outcome, exitCode>>
     ELSE pc' = "ABORT" /\ outcome' = "No news found" /\ exitCode' = 0

(* ------------------------------ actions ------------------------------- *)
\* if not GEMINI_API_KEY or not BRAVE_API_KEY: sys.exit(1)
Main ==
  /\ pc = "INIT"
  /\ IF ~GEMINI_API_KEY \/ ~BRAVE_API_KEY
     THEN Exit1("credentials not set")
     ELSE pc' = "FETCHING" /\ UNCHANGED <<outcome, exitCode>>
  /\ UNCHANGED <<envVars, docVars, fetchVars, genVars>>

\* fetch_insurance_news up to the test len(results) < 3
FetchPrimary(r) ==
  /\ pc = "FETCHING"
  /\ searchCalls' = Append(searchCalls, "dated")
  /\ primary' = r
  /\ IF r.raised
     THEN Exit1("Brave Search Request Failed") /\ UNCHANGED <<results, news>>
     ELSE LET res == IF r.status = 200 THEN Hits("dated", r.n) ELSE <<>>
          IN IF FewResults(res)
             THEN /\ pc' = "FALLBACK"
                  /\ results' = res
                  /\ UNCHANGED <<news, outcome, exitCode>>
             ELSE FetchReturns(res)
  /\ UNCHANGED <<envVars, docVars, fallback, genVars>>

\* The broader search whose results are taken whatever the status code.
FetchFallbackAlways(r) ==
  /\ pc = "FALLBACK"
  /\ searchCalls' = Append(searchCalls, "broad")
  /\ fallback' = r
  /\ IF r.raised
     THEN Exit1("Brave Search Request Failed") /\ UNCHANGED <<results, news>>
     ELSE FetchReturns(Hits("broad", r.n))
  /\ UNCHANGED <<envVars, docVars, primary, genVars>>

\* the broader search
FetchFallback(r) ==
  /\ pc = "FALLBACK"
  /\ searchCalls' = Append(searchCalls, "broad")
  /\ fallback' = r
  /\ IF r.raised
     THEN Exit1("Brave Search Request Failed") /\ UNCHANGED <<results, news>>
     ELSE FetchReturns(IF r.status = 200 THEN Hits("broad", r.n) ELSE results)
  /\ UNCHANGED <<envVars, docVars, primary, genVars>>

\* The loop without its break: after a success the next model is called too.
TryModelNoBreak(o) ==
  /\ pc = "GENERATING"
  /\ LET i == Len(genCalls) + 1
     IN /\ i <= Len(models_to_try)
        /\ genCalls' = Append(genCalls, models_to_try[i])
        /\ IF o.kind = "ok"
           THEN /\ response' = o.text
                /\ pc' = IF i = Len(models_to_try) THEN "PARSING"
                         ELSE "GENERATING"
                /\ UNCHANGED <<genFails, backoffs, outcome, exitCode>>
           ELSE /\ genFails' = genFails + 1
                /\ backoffs' = IF o.kind = "ResourceExhausted"
                               THEN backoffs + 1 ELSE backoffs
                /\ UNCHANGED response
                /\ IF i = Len(models_to_try)
                   THEN IF response = None
                        THEN Exit1("All Gemini models failed")
                        ELSE pc' = "PARSING" /\ UNCHANGED <<outcome, exitCode>>
                   ELSE UNCHANGED <<pc, outcome, exitCode>>
  /\ UNCHANGED <<envVars, docVars, fetchVars, entry>>

\* The loop that, once every model failed, carries on with a stock answer
\* instead of leaving the process.
TryModelStockAnswer(o) ==
  /\ pc = "GENERATING"
  /\ LET i == Len(genCalls) + 1
     IN /\ i <= Len(models_to_try)
        /\ genCalls' = Append(genCalls, models_to_try[i])
        /\ IF o.kind = "ok"
           THEN /\ response' = o.text
                /\ pc' = "PARSING"
                /\ UNCHANGED <<genFails, backoffs, outcome, exitCode>>
           ELSE /\ genFails' = genFails + 1
                /\ backoffs' = IF o.kind = "ResourceExhausted"
                               THEN backoffs + 1 ELSE backoffs
                /\ IF i = Len(models_to_try)
                   THEN /\ response' = ArrayText(<<"plain">>)
                        /\ pc' = "PARSING"
                        /\ UNCHANGED <<outcome, exitCode>>
                   ELSE UNCHANGED <<response, pc, outcome, exitCode>>
  /\ UNCHANGED <<envVars, docVars, fetchVars, entry>>

\* One iteration of the loop over models_to_try, and the test after the
\* loop when it was the last one.
TryModel(o) ==
  /\ pc = "GENERATING"
  /\ LET i == Len(genCalls) + 1
     IN /\ i <= Len(models_to_try)
        /\ genCalls' = Append(genCalls, models_to_try[i])
        /\ IF o.kind = "ok"
           THEN /\ response' = o.text
                /\ pc' = "PARSING"
                /\ UNCHANGED <<genFails, backoffs, outcome, exitCode>>
           ELSE /\ genFails' = genFails + 1
                /\ backoffs' = IF o.kind = "ResourceExhausted"
                               THEN backoffs + 1 ELSE backoffs
                /\ UNCHANGED response
                /\ IF i = Len(models_to_try)
                   THEN Exit1("All Gemini models failed")
                   ELSE UNCHANGED <<pc, outcome, exitCode>>
  /\ UNCHANGED <<envVars, docVars, fetchVars, entry>>

\* A response that cannot be parsed taken as a reason to try the next model.
ParseResponseRetry ==
  /\ pc = "PARSING"
  /\ LET match == ReSearch(response)
         parsed == JsonLoads(match)
     IN IF match = None \/ ~parsed.ok
        THEN /\ IF Len(genCalls) < Len(models_to_try)
                THEN pc' = "GENERATING" /\ UNCHANGED <<outcome, exitCode>>
                ELSE Exit1("JSON parsing failed")
             /\ UNCHANGED entry
        ELSE /\ entry' = parsed.val
             /\ IF parsed.val # <<>>
                THEN pc' = "UPDATING" /\ UNCHANGED <<outcome, exitCode>>
                ELSE Exit1("Failed to generate news entry")
  /\ UNCHANGED <<envVars, docVars, fetchVars, genCalls, genFails, backoffs,
                 response>>

\* The rest of generate_news_entry, and main's test of what it returned.
ParseResponse ==
  /\ pc = "PARSING"
  /\ LET match == ReSearch(response)
         parsed == JsonLoads(match)
     IN IF match = None
        THEN Exit1("JSON structure not found") /\ UNCHANGED entry
        ELSE IF ~parsed.ok
        THEN Exit1("JSON parsing failed") /\ UNCHANGED entry
        ELSE /\ entry' = parsed.val
             /\ IF parsed.val # <<>>
                THEN pc' = "UPDATING" /\ UNCHANGED <<outcome, exitCode>>
                ELSE Exit1("Failed to generate news entry")
  /\ UNCHANGED <<envVars, docVars, fetchVars, genCalls, genFails, backoffs,
                 response>>

\* update_index_html(entry), run on the day d
UpdateIndexHtml(d) ==
  /\ pc = "UPDATING"
  /\ date_str' = d
  /\ docReads' = docReads + 1
  /\ content' = doc
  /\ IF AlreadyPresent(doc, d)
     THEN /\ pc' = "SKIP" /\ outcome' = "Skipping update" /\ exitCode' = 0
          /\ UNCHANGED <<doc, docWrites>>
     ELSE IF TemplateRaises(Template(d, entry))
     THEN /\ pc' = "CRASH" /\ outcome' = "uncaught re.error" /\ exitCode' = 1
          /\ UNCHANGED <<doc, docWrites>>
     ELSE /\ doc' = ReSub(Template(d, entry), doc)
          /\ docWrites' = docWrites + 1
          /\ pc' = "DONE" /\ outcome' = "Update complete" /\ exitCode' = 0
  /\ UNCHANGED <<envVars, fetchVars, genVars>>

Step(Searches, Texts) ==
  \/ Main
  \/ \E r \in Searches : FetchPrimary(r)
  \/ \E r \in Searches : FetchFallback(r)
  \/ \E o \in GenOutcomes(Texts) : TryModel(o)
  \/ ParseResponse
  \/ \E d \in Dates : UpdateIndexHtml(d)

Next == Step(SearchOutcomes, ResponseTexts)

Spec == Init /\ [][Next]_vars

(* ------------------- successive runs of the script -------------------- *)
\* The script is started again (a new process) once the previous run ended;
\* only index.html and the environment are carried over.
NewRun ==
  /\ pc \in Terminal
  /\ runs < MaxRuns
  /\ runs' = runs + 1
  /\ docAtStart' = doc
  /\ pc' = "INIT" /\ outcome' = "" /\ exitCode' = 0
  /\ docReads' = 0 /\ docWrites' = 0 /\ content' = None /\ date_str' = NoDate
  /\ searchCalls' = <<>> /\ primary' = NoResponse /\ fallback' = NoResponse
  /\ results' = <<>> /\ news' = <<>>
  /\ genCalls' = <<>> /\ genFails' = 0 /\ backoffs' = 0
  /\ response' = None /\ entry' = None
  /\ UNCHANGED <<GEMINI_API_KEY, BRAVE_API_KEY, doc>>

\* Documents with the anchor exactly once and every date key at most once.
RunDocs == {d \in InitDocs : Cardinality(Positions(d, ANCHOR)) = 1}

RunSearches ==
  {[raised |-> TRUE, status |-> 0, n |-> 0]}
  \cup [raised : {FALSE}, status : {200}, n : {0, MinResults}]

RunTexts == {ArrayText(<<"plain">>), ArrayText(<<"anchor">>), <<"p">>}

InitRuns ==
  /\ Fresh
  /\ GEMINI_API_KEY \in BOOLEAN /\ BRAVE_API_KEY = TRUE
  /\ doc \in RunDocs /\ docAtStart = doc
  /\ runs = 1

NextRuns == Step(RunSearches, RunTexts) \/ NewRun

SpecRuns == InitRuns /\ [][NextRuns]_vars


(* ===================== properties of the script ======================= *)
KeyToks == {KeyTok(d) : d \in Dates}
KeyCount(t) == Cardinality({i \in 1..Len(t) : t[i] \in KeyToks})

\* the updater was called and has ended
Updated == pc \in {"SKIP", "DONE", "CRASH"}

\* fetch_insurance_news has returned its results
FetchReturned ==
  /\ pc \notin {"INIT", "FETCHING", "FALLBACK"}
  /\ outcome \notin {"credentials not set", "Brave Search Request Failed"}

\* the number of results the date-specific query yielded
PrimaryYield == IF primary.status = 200 THEN primary.n ELSE 0

\* the generation call returned a response and its text has been dealt with
Answered == response # None /\ pc \notin {"GENERATING", "PARSING"}

\* the arrays that are written, well-formed, somewhere in a text
ArraysIn(text) ==
  {JsonLoads(SubSeq(text, i, j)).val :
     <<i, j>> \in {ij \in (1..Len(text)) \X (1..Len(text)) :
                     /\ ij[1] < ij[2]
                     /\ text[ij[1]] = "[" /\ text[ij[2]] = "]"
                     /\ JsonLoads(SubSeq(text, ij[1], ij[2])).ok}}

\* the text from the first "[" to the last "]" of the response, parsed
Span == JsonLoads(ReSearch(response))
SpanIsArray == ReSearch(response) # None /\ Span.ok

\* C1: when the document read by update_index_html already holds today's
\* date as a key, the updater takes the skip, writes nothing, and the
\* document is the text that was read.
C1_DuplicateDayGuard ==
  (Updated /\ Contains(content, KeyTok(date_str)))
    => (pc = "SKIP" /\ docWrites = 0 /\ doc = content /\ doc = docAtStart)

C1_Witness ==
  /\ pc = "SKIP" /\ docReads = 1
  /\ Contains(content, KeyTok(date_str))
  /\ Len(entry) = MaxEntryLen

\* the value stored under today's key: the text between the key and the
\* first "]" after it
StoredValue ==
  LET ks == Positions(doc, KeyTok(date_str))
      cs == IF ks = {} THEN {}
            ELSE {j \in Positions(doc, "]") : j > Min(ks)}
  IN IF cs = {} THEN ParseError
     ELSE JsonLoads(SubSeq(doc, Min(ks) + 1, Min(cs)))

\* C2: after a run that ends with "Update complete" the document holds
\* exactly one date key more than before, today's, and the value under it
\* is a JSON array equal to the generated entries.
C2_OneMoreKey ==
  pc = "DONE" =>
    /\ KeyCount(doc) = KeyCount(content) + 1
    /\ Cardinality(Positions(doc, KeyTok(date_str))) = 1
    /\ StoredValue.ok /\ StoredValue.val = entry

\* C3: with the anchor in the document and the date not yet a key, the
\* fragment "<date>": <json>, is put right after the first anchor and every
\* other byte of the document is kept.
C3_InsertAfterFirstAnchor ==
  (pc = "DONE" /\ Contains(content, ANCHOR)) =>
    LET a == Min(Positions(content, ANCHOR))
    IN doc = SubSeq(content, 1, a)
             \o <<"nl12", KeyTok(date_str), " ">> \o JsonDumps(entry)
             \o <<",", "nl12">>
             \o SubSeq(content, a + 1, Len(content))

\* C4 as stated: a response that contains a well-formed JSON array makes
\* generate_news_entry return that array.
C4_ReturnsContainedArray ==
  (Answered /\ ArraysIn(response) # {})
    => (entry # None /\ entry \in ArraysIn(response))

\* C4, amended: the models are called in the order of the list, each at
\* most once; the first call that does not raise is the last call; and when
\* the text from the first "[" to the last "]" of its response is a
\* well-formed array, that array is what generate_news_entry returns.
C4_FirstSuccessWins ==
  /\ genCalls = SubSeq(models_to_try, 1, Len(genCalls))
  /\ genFails = (IF response = None THEN Len(genCalls) ELSE Len(genCalls) - 1)
  /\ (Answered /\ SpanIsArray) => entry = Span.val

C4_Witness ==
  /\ genFails = 2 /\ Len(genCalls) = 3 /\ backoffs = 1
  /\ Answered /\ entry = Span.val /\ Len(entry) = MaxEntryLen
  /\ response # ReSearch(response)

\* C5: when the call failed for every model of the list the process has
\* ended with exit code 1, the updater was not entered and index.html was
\* neither read nor written.
C5_AllModelsFailed ==
  genFails = Len(models_to_try) =>
    /\ pc = "FAIL" /\ exitCode = 1
    /\ content = None /\ date_str = NoDate
    /\ docReads = 0 /\ docWrites = 0 /\ doc = docAtStart

C5_Witness ==
  /\ genFails = Len(models_to_try) /\ Len(genCalls) = Len(models_to_try)
  /\ outcome = "All Gemini models failed"

\* C6: once fetch_insurance_news has returned, it has sent the date-specific
\* query, followed by the broader query exactly when the first yielded fewer
\* than 3 results; never more than 2 queries.
C6_SearchCalls ==
  /\ Len(searchCalls) <= 2
  /\ FetchReturned =>
       searchCalls = (IF PrimaryYield < 3 THEN <<"dated", "broad">>
                      ELSE <<"dated">>)

C6_Witness ==
  /\ FetchReturned /\ PrimaryYield = 2 /\ searchCalls = <<"dated", "broad">>

ExitsZero == {"Update complete", "Skipping update", "No news found"}

\* C7 as stated: exit code 1 comes with a fetch error, exhausted models, a
\* response that cannot be parsed or a missing credential, and with nothing
\* else; exit code 0 with an update, a skip or no news.
C7_ExitCodesAsStated ==
  pc \in Terminal =>
    /\ exitCode \in {0, 1}
    /\ exitCode = 0 <=> outcome \in ExitsZero
    /\ exitCode = 1 <=> outcome \in {"Brave Search Request Failed",
                                     "All Gemini models failed",
                                     "JSON structure not found",
                                     "JSON parsing failed",
                                     "credentials not set"}

\* C7, amended: exit code 1 comes also with an empty generated array and
\* with the exception re.sub raises out of the updater.
C7_ExitCodes ==
  pc \in Terminal =>
    /\ exitCode \in {0, 1}
    /\ exitCode = 0 <=> outcome \in ExitsZero
    /\ exitCode = 1 <=> outcome \in {"Brave Search Request Failed",
                                     "All Gemini models failed",
                                     "JSON structure not found",
                                     "JSON parsing failed",
                                     "credentials not set",
                                     "Failed to generate news entry",
                                     "uncaught re.error"}

C7_Witness ==
  /\ pc = "FAIL" /\ exitCode = 1
  /\ outcome = "Failed to generate news entry" /\ entry = <<>>

\* the keys of the document in the order they are written
KeysOf(t) == SelectSeq(t, LAMBDA x : x \in KeyToks)

\* C8: over successive runs, from a document with the anchor once and no key
\* twice, no date key comes to be written twice, and after an insertion the
\* first key after the anchor is the date just inserted.
C8_KeysUnique ==
  /\ \A d \in Dates : Cardinality(Positions(doc, KeyTok(d))) <= 1
  /\ pc = "DONE" =>
       LET a == Min(Positions(doc, ANCHOR))
           after == KeysOf(SubSeq(doc, a + 1, Len(doc)))
       IN after # <<>> /\ after[1] = KeyTok(date_str)

\* C9 as stated: when the broader query was sent and did not raise, what
\* fetch_insurance_news returns is the result list of that query.
C9_ReturnsFallbackList ==
  (FetchReturned /\ Len(searchCalls) = 2) => news = Hits("broad", fallback.n)

\* C9, amended: it is the result list of the broader query when that query
\* was answered with status 200, and the results of the date-specific query
\* otherwise.
C9_FallbackResults ==
  (FetchReturned /\ Len(searchCalls) = 2) =>
    news = (IF fallback.status = 200 THEN Hits("broad", fallback.n)
            ELSE Hits("dated", PrimaryYield))

C9_Witness ==
  /\ FetchReturned /\ Len(searchCalls) = 2
  /\ PrimaryYield = 2 /\ fallback.status = 200 /\ fallback.n = 1
  /\ news = <<"broad">>

\* C10 as stated: after generation the process is in FAIL only when every
\* model failed or the response could not be parsed, and a response whose
\* array parses takes it to the updater, which ends in SKIP or DONE.
C10_GenerationStepAsStated ==
  /\ (pc = "FAIL" /\ genCalls # <<>>) =>
       \/ genFails = Len(models_to_try)
       \/ (response # None /\ ~SpanIsArray)
  /\ (Answered /\ SpanIsArray) =>
       (pc \in {"UPDATING", "SKIP", "DONE"} /\ entry = Span.val)

\* C10, amended: a response that cannot be parsed, or whose array is empty,
\* ends the process in FAIL (no other model is tried); a response whose
\* array parses and is not empty takes it to the updater with that array,
\* and the updater ends in SKIP or DONE, or is left by the exception that
\* re.sub raises.
C10_GenerationStep ==
  /\ (pc = "FAIL" /\ genCalls # <<>>) =>
       \/ genFails = Len(models_to_try)
       \/ (response # None /\ (~SpanIsArray \/ Span.val = <<>>))
  /\ (response # None /\ pc # "PARSING" /\ (~SpanIsArray \/ Span.val = <<>>))
       => pc = "FAIL"
  /\ (response # None /\ pc # "PARSING" /\ SpanIsArray /\ Span.val # <<>>) =>
       /\ pc \in {"UPDATING", "SKIP", "DONE", "CRASH"}
       /\ entry = Span.val
       /\ pc = "CRASH" => TemplateRaises(JsonDumps(entry))

C10_Witness ==
  /\ pc = "DONE" /\ genFails = 1 /\ SpanIsArray
  /\ entry = Span.val /\ Len(entry) = MaxEntryLen

====
